---- MODULE Spec2Model ----
(***************************************************************************)
(* EVOLVE-O-MART store (src/src/evolve_o_mart/store.py): the catalog       *)
(* engine over a key-value backend.  The backend holds the product         *)
(* collection (key -> Product) and the metadata singleton; a Store object  *)
(* adds the _initialized flag.  Every client operation is a sequence of    *)
(* backend reads and writes; an operation is modelled by the sequence of   *)
(* writes it issues, in the order of the code, and the value it returns.   *)
(*                                                                         *)
(* Product ids are numbers: the seed ids prod_001.. are 1..NumSeeds, the   *)
(* ids drawn by _generate_product_id are NumSeeds+1.. (drawn fresh), and   *)
(* InvalidId is an id that is never persisted.  Display text and           *)
(* timestamps (name, tagline, created_at, generation_started_at) take no   *)
(* part in any decision of the store and are left out of the records.      *)
(***************************************************************************)
EXTENDS Integers, Sequences, FiniteSets, TLC

VARIABLES
    products,        \* backend collection "products": id -> Product or NoProduct
    metadata,        \* backend collection "metadata", key "metadata": StoreMetadata or NoMetadata
    initialized,     \* Store._initialized of the current Store object
    nextId,          \* the next id _generate_product_id draws
    completedViews,  \* mark_product_viewed calls that found their product, since the
                     \* last initialize() or apply_evolution()
    pre,             \* the backend as the last operation found it
    writes,          \* the backend writes of the last operation, in order
    ret,             \* the last operation and what it returned
    evolutions,      \* evolve calls that applied an evolution, since the last
                     \* initialize() that ran to its end
    calls            \* the mark_product_viewed coroutines in flight on the one Store
                     \* of the server: caller -> position and local variables

vars ==
    <<products, metadata, initialized, nextId, completedViews, pre, writes, ret,
      evolutions, calls>>

----------------------------------------------------------------------------
(* Bounds and constants *)

\* Number of entries of SEED_PRODUCTS the model runs with (seeds.py lists 6;
\* the store treats the list uniformly).
NumSeeds == 2

\* store.py:30, VOTES_TO_EVOLVE = int(os.environ.get("VOTES_TO_EVOLVE", "5")):
\* the threshold is a positive integer set by the environment (5 when it
\* sets none); the model runs with this value.
VOTES_TO_EVOLVE == 3

\* Number of ids _generate_product_id hands out in a run.
MaxGenerated == 1

\* Number of mark_product_viewed calls the event loop runs concurrently.
NumCallers == 2

\* mark_product_viewed is explored up to one vote past the threshold, per
\* generation and per entry.
MaxVotes == VOTES_TO_EVOLVE + 1

\* None (parent_id, last_winner_id and the optional response fields).
Null == -1

MaxId == NumSeeds + MaxGenerated
Ids == 1..MaxId
InvalidId == MaxId + 1
ViewIds == Ids \cup {InvalidId}

\* A key with no record, and the metadata key with no record.
NoProduct == [absent |-> TRUE]
NoMetadata == [absent |-> TRUE]

Callers == 1..NumCallers

\* A coroutine that has not been started: its position and its locals.
IdleCall ==
    [pc |-> "idle", product_id |-> Null, product |-> NoProduct,
     metadata |-> NoMetadata, seeded |-> 0, ids |-> <<>>, found |-> <<>>,
     ran_initialize |-> FALSE, returned |-> NoProduct, is_leader |-> FALSE]

----------------------------------------------------------------------------
(* Records *)

\* seeds.py: SEED_PRODUCTS[i-1], with the defaults of models.Product.
SeedProduct(i) == [id |-> i, version |-> 1, views |-> 0, parent_id |-> Null]

SEED_PRODUCTS == [i \in 1..NumSeeds |-> SeedProduct(i)]

\* The backend as one value.
DB == [products |-> products, metadata |-> metadata]

EmptyDB == [products |-> [i \in Ids |-> NoProduct], metadata |-> NoMetadata]

----------------------------------------------------------------------------
(* Backend writes *)

\* Mutant of PutProduct: the record is stored without its parent_id.
PutProductDroppingParent(p) ==
    [kind |-> "put_product", key |-> p.id, value |-> [p EXCEPT !.parent_id = Null]]

PutProduct(p) == [kind |-> "put_product", key |-> p.id, value |-> p]
DeleteProduct(id) == [kind |-> "delete_product", key |-> id, value |-> NoProduct]
PutMetadata(m) == [kind |-> "put_metadata", key |-> Null, value |-> m]

Apply(db, w) ==
    CASE w.kind = "put_product" -> [db EXCEPT !.products[w.key] = w.value]
      [] w.kind = "delete_product" -> [db EXCEPT !.products[w.key] = NoProduct]
      [] w.kind = "put_metadata" -> [db EXCEPT !.metadata = w.value]

RECURSIVE ApplyAll(_, _)
ApplyAll(db, ws) ==
    IF ws = <<>> THEN db ELSE ApplyAll(Apply(db, Head(ws)), Tail(ws))

----------------------------------------------------------------------------
(* Store.initialize *)

\* initialize(), the loop: seed.model_copy(update={"created_at": now, "views": 0}).
InitialProduct(seed) == [seed EXCEPT !.views = 0]

InitialProducts == [i \in 1..NumSeeds |-> InitialProduct(SEED_PRODUCTS[i])]

\* initialize(), the StoreMetadata it builds.
InitialMetadata(prods) ==
    [generation |-> 1,
     last_winner_id |-> Null,
     votes_this_generation |-> 0,
     product_ids |-> [i \in 1..Len(prods) |-> prods[i].id]]

\* Mutant of InitializeWrites: the metadata is written before the entries.
InitializeWritesMetadataFirst ==
    <<PutMetadata(InitialMetadata(InitialProducts))>>
        \o [i \in 1..NumSeeds |-> PutProduct(InitialProducts[i])]

\* initialize(): one update_product per seed, then update_metadata.
InitializeWrites ==
    [i \in 1..NumSeeds |-> PutProduct(InitialProducts[i])]
        \o <<PutMetadata(InitialMetadata(InitialProducts))>>

\* Mutant of EnsureInitialized: initialize() is skipped when a product record
\* is already stored.
EnsureInitializedUnlessSeeded(init, db) ==
    IF init THEN <<>>
    ELSE IF db.metadata = NoMetadata /\ \A i \in Ids : db.products[i] = NoProduct
    THEN InitializeWrites
    ELSE <<>>

\* Mutant of EnsureInitialized: the flag alone decides, the stored metadata is
\* not looked up.
EnsureInitializedByFlag(init, db) ==
    IF init THEN <<>> ELSE InitializeWrites

\* _ensure_initialized(): the writes it issues.
EnsureInitialized(init, db) ==
    IF init THEN <<>>
    ELSE IF db.metadata = NoMetadata THEN InitializeWrites
    ELSE <<>>

----------------------------------------------------------------------------
(* Reads *)

\* Mutant of GetProducts: the loop ends at the first id that does not resolve.
RECURSIVE GetProductsUntilMissing(_, _)
GetProductsUntilMissing(db, ids) ==
    IF ids = <<>> THEN <<>>
    ELSE LET p == db.products[Head(ids)]
         IN IF p = NoProduct THEN <<>>
            ELSE <<p>> \o GetProductsUntilMissing(db, Tail(ids))

\* get_products(product_ids): the ids that resolve, in order.
RECURSIVE GetProducts(_, _)
GetProducts(db, ids) ==
    IF ids = <<>> THEN <<>>
    ELSE LET p == db.products[Head(ids)]
             rest == GetProducts(db, Tail(ids))
         IN IF p = NoProduct THEN rest ELSE <<p>> \o rest

\* max(products, key=lambda p: p.views): the first entry of maximal views.
RECURSIVE MaxFrom(_, _, _)
MaxFrom(ps, i, best) ==
    IF i > Len(ps) THEN best
    ELSE MaxFrom(ps, i + 1, IF ps[i].views > best.views THEN ps[i] ELSE best)

\* Mutant of MaxByViews: the first entry, whatever its views.
FirstProduct(ps) == ps[1]

MaxByViews(ps) == MaxFrom(ps, 2, ps[1])

\* get_top_product() on an initialized store.
GetTopProduct(db) ==
    LET ps == GetProducts(db, db.metadata.product_ids)
    IN IF ps = <<>> THEN NoProduct ELSE MaxByViews(ps)

\* Mutant of VotesUntil: the difference is not clamped at 0.
VotesUntilUnclamped(m) == VOTES_TO_EVOLVE - m.votes_this_generation

\* Mutant of VotesUntil: the vote being awaited is not counted as missing.
VotesUntilOneShort(m) ==
    IF VOTES_TO_EVOLVE - m.votes_this_generation - 1 > 0
    THEN VOTES_TO_EVOLVE - m.votes_this_generation - 1
    ELSE 0

\* max(0, VOTES_TO_EVOLVE - metadata.votes_this_generation)
VotesUntil(m) ==
    IF VOTES_TO_EVOLVE - m.votes_this_generation > 0
    THEN VOTES_TO_EVOLVE - m.votes_this_generation
    ELSE 0

\* Mutant of Lookup: an id with no record reads as a new entry.
LookupOrNew(db, id) ==
    IF id \in DOMAIN db.products /\ db.products[id] # NoProduct
    THEN db.products[id]
    ELSE [id |-> id, version |-> 1, views |-> 0, parent_id |-> Null]

\* get_product(product_id) once the store is initialized.
Lookup(db, id) == IF id \in DOMAIN db.products THEN db.products[id] ELSE NoProduct

----------------------------------------------------------------------------
(* Operations.  Each takes the Store flag and the backend and gives         *)
(* [writes, ret]: the backend writes it issues, in order, and its result.  *)

\* What an operation gives when an exception leaves it (get_metadata's
\* RuntimeError, max() of an empty list).
Raise(op, ws) ==
    [writes |-> ws,
     ret |-> [op |-> op, raised |-> TRUE, generation_called |-> FALSE]]

\* _ensure_initialized(): the path it takes.
InitPath(init, db) ==
    IF init THEN "flag set"
    ELSE IF db.metadata = NoMetadata THEN "initialize"
    ELSE "metadata found"

\* get_state(); init_path records the path of its _ensure_initialized().
GetState(init, db) ==
    LET w0 == EnsureInitialized(init, db)
        db1 == ApplyAll(db, w0)
        m == db1.metadata
    IN IF m = NoMetadata THEN Raise("get_state", w0)
       ELSE LET ps == GetProducts(db1, m.product_ids)
                leader == IF ps # <<>> THEN MaxByViews(ps) ELSE NoProduct
            IN [writes |-> w0,
                ret |-> [op |-> "get_state", raised |-> FALSE,
                         generation |-> m.generation,
                         last_winner_id |-> m.last_winner_id,
                         current_leader_id |->
                             IF leader # NoProduct THEN leader.id ELSE Null,
                         votes_this_generation |-> m.votes_this_generation,
                         votes_until_evolution |-> VotesUntil(m),
                         votes_to_evolve |-> VOTES_TO_EVOLVE,
                         products |-> ps,
                         init_path |-> InitPath(init, db)]]

\* Mutant of ViewedProduct: the view is not counted.
ViewedProductUncounted(p) == p

\* mark_product_viewed: product.views += 1
ViewedProduct(p) == [p EXCEPT !.views = p.views + 1]

\* Mutant of ViewedMetadata: the record is rebuilt and last_winner_id is left
\* at its default.
ViewedMetadataRebuilt(m) ==
    [generation |-> m.generation,
     last_winner_id |-> Null,
     votes_this_generation |-> m.votes_this_generation + 1,
     product_ids |-> m.product_ids]

\* mark_product_viewed: metadata.votes_this_generation += 1
ViewedMetadata(m) == [m EXCEPT !.votes_this_generation = m.votes_this_generation + 1]

\* Mutant of IsLeader: the leader's id is not compared.
IsLeaderWhenAnyLeader(db, id) == GetTopProduct(db) # NoProduct

\* mark_product_viewed: leader is not None and leader.id == product_id
IsLeader(db, id) ==
    LET leader == GetTopProduct(db)
    IN leader # NoProduct /\ leader.id = id

\* mark_product_viewed(product_id)
MarkProductViewed(init, db, id) ==
    LET w0 == EnsureInitialized(init, db)
        db1 == ApplyAll(db, w0)
        product == Lookup(db1, id)
    IN IF product = NoProduct
       THEN [writes |-> w0,
             ret |-> [op |-> "mark_product_viewed", raised |-> FALSE,
                      product_id |-> id, found |-> FALSE]]
       ELSE LET w1 == <<PutProduct(ViewedProduct(product))>>
                db2 == ApplyAll(db1, w1)
            IN IF db2.metadata = NoMetadata
               THEN Raise("mark_product_viewed", w0 \o w1)
               ELSE LET w2 == <<PutMetadata(ViewedMetadata(db2.metadata))>>
                        db3 == ApplyAll(db2, w2)
                    IN [writes |-> w0 \o w1 \o w2,
                        ret |-> [op |-> "mark_product_viewed", raised |-> FALSE,
                                 product_id |-> id, found |-> TRUE,
                                 product |-> ViewedProduct(product),
                                 is_leader |-> IsLeader(db3, id)]]

\* Mutant of CanEvolve: the store is never eligible.
CanEvolveNever(votes_until) == FALSE

\* Mutant of CanEvolve: eligible one vote early.
CanEvolveOneEarly(votes_until) == votes_until <= 1

\* check_evolution_state: can_evolve = votes_until == 0
CanEvolve(votes_until) == votes_until = 0

\* check_evolution_state() on an initialized store with at least one product
\* that resolves (max() raises on an empty list: see Evolve).
CheckEvolutionState(db) ==
    LET m == db.metadata
        ps == GetProducts(db, m.product_ids)
        winner == MaxByViews(ps)
    IN IF winner.views = 0
       THEN [metadata |-> m, products |-> ps, winner |-> NoProduct,
             can_evolve |-> FALSE, votes_until_evolution |-> VOTES_TO_EVOLVE]
       ELSE [metadata |-> m, products |-> ps, winner |-> winner,
             can_evolve |-> CanEvolve(VotesUntil(m)),
             votes_until_evolution |-> VotesUntil(m)]

\* Mutant of EvolvedProduct: the evolved product keeps the winner's version.
EvolvedProductSameVersion(winner, newId) ==
    [id |-> newId, version |-> winner.version, views |-> 0,
     parent_id |-> winner.id]

\* apply_evolution: the Product it builds.
EvolvedProduct(winner, newId) ==
    [id |-> newId, version |-> winner.version + 1, views |-> 0,
     parent_id |-> winner.id]

\* Mutant of NewProductIds: the winner's id is removed and the new id
\* appended.
NewProductIdsAppended(ids, winnerId, newId) ==
    SelectSeq(ids, LAMBDA pid : pid # winnerId) \o <<newId>>

\* Mutant of NewProductIds: the new id is added and the winner's id kept.
NewProductIdsKeepingWinner(ids, winnerId, newId) == ids \o <<newId>>

\* apply_evolution: [evolved.id if pid == winner.id else pid for pid in product_ids]
NewProductIds(ids, winnerId, newId) ==
    [i \in 1..Len(ids) |-> IF ids[i] = winnerId THEN newId ELSE ids[i]]

\* Mutant of ResetOthers: the other products keep their views.
ResetOthersKeepingViews(db, ids, winnerId) == <<>>

\* apply_evolution: the loop that resets the views of the other products.
RECURSIVE ResetOthers(_, _, _)
ResetOthers(db, ids, winnerId) ==
    IF ids = <<>> THEN <<>>
    ELSE LET pid == Head(ids)
             prod == Lookup(db, pid)
             w == IF pid # winnerId /\ prod # NoProduct
                  THEN <<PutProduct([prod EXCEPT !.views = 0])>>
                  ELSE <<>>
         IN w \o ResetOthers(ApplyAll(db, w), Tail(ids), winnerId)

\* Mutant of EvolvedMetadata: the generation is not incremented.
EvolvedMetadataSameGeneration(m, winner, evolved) ==
    [generation |-> m.generation,
     last_winner_id |-> winner.id,
     votes_this_generation |-> 0,
     product_ids |-> NewProductIds(m.product_ids, winner.id, evolved.id)]

\* apply_evolution: the metadata it writes.
EvolvedMetadata(m, winner, evolved) ==
    [generation |-> m.generation + 1,
     last_winner_id |-> winner.id,
     votes_this_generation |-> 0,
     product_ids |-> NewProductIds(m.product_ids, winner.id, evolved.id)]

\* Mutant of ApplyEvolution: the winner's record is deleted once the evolved
\* product is persisted.
ApplyEvolutionDeletingWinner(db, winner, newId) ==
    LET m == db.metadata
        evolved == EvolvedProduct(winner, newId)
        w1 == <<PutProduct(evolved), DeleteProduct(winner.id)>>
    IN w1 \o ResetOthers(ApplyAll(db, w1), m.product_ids, winner.id)
          \o <<PutMetadata(EvolvedMetadata(m, winner, evolved))>>

\* Mutant of ApplyEvolution: the metadata is written before the entries.
ApplyEvolutionMetadataFirst(db, winner, newId) ==
    LET m == db.metadata
        evolved == EvolvedProduct(winner, newId)
    IN <<PutMetadata(EvolvedMetadata(m, winner, evolved))>>
           \o <<PutProduct(evolved)>>
           \o ResetOthers(db, m.product_ids, winner.id)

\* Mutant of ApplyEvolution: the evolved product is listed but not persisted.
ApplyEvolutionWithoutEntry(db, winner, newId) ==
    LET m == db.metadata
        evolved == EvolvedProduct(winner, newId)
    IN ResetOthers(db, m.product_ids, winner.id)
           \o <<PutMetadata(EvolvedMetadata(m, winner, evolved))>>

\* apply_evolution(winner, evolution): its writes, in order.
ApplyEvolution(db, winner, newId) ==
    LET m == db.metadata
        evolved == EvolvedProduct(winner, newId)
        w1 == <<PutProduct(evolved)>>
        w2 == ResetOthers(ApplyAll(db, w1), m.product_ids, winner.id)
        w3 == <<PutMetadata(EvolvedMetadata(m, winner, evolved))>>
    IN w1 \o w2 \o w3

\* The default values of EvolutionResponse, with what the model records of the
\* call: its dry_run argument, whether the generation call was reached and
\* what it did.
EvolutionResponse ==
    [op |-> "evolve", raised |-> FALSE, success |-> FALSE, message |-> "",
     generation |-> Null, evolved_from |-> NoProduct, evolved_to |-> NoProduct,
     dry_run |-> FALSE, would_evolve |-> NoProduct, not_ready |-> FALSE,
     votes_until_evolution |-> Null, votes_to_evolve |-> Null,
     dry_run_arg |-> FALSE, generation_called |-> FALSE, generation_ok |-> FALSE,
     generation_message |-> ""]

\* What ctx.sample can do: return a result, or raise with a message.
GenerationSucceeds == [ok |-> TRUE, message |-> ""]

GenerationOutcomes ==
    {GenerationSucceeds}
        \cup {[ok |-> FALSE, message |-> e] : e \in {"sampling failed", "invalid result"}}

\* Mutant of EvolveStep: dry_run is looked at only when the catalog is not
\* eligible.
EvolveStepDryRunOnlyWhenNotReady(state, dry_run) ==
    IF state.winner = NoProduct THEN "no_winner"
    ELSE IF ~state.can_evolve THEN (IF dry_run THEN "dry_run" ELSE "not_ready")
    ELSE "generate"

\* Mutant of EvolveStep: a dry run is refused below the threshold too.
EvolveStepDryRunNeedsThreshold(state, dry_run) ==
    IF state.winner = NoProduct THEN "no_winner"
    ELSE IF ~state.can_evolve THEN "not_ready"
    ELSE IF dry_run THEN "dry_run"
    ELSE "generate"

\* Mutant of EvolveStep: the threshold is not looked at.
EvolveStepWithoutThreshold(state, dry_run) ==
    IF state.winner = NoProduct THEN "no_winner"
    ELSE IF dry_run THEN "dry_run"
    ELSE "generate"

\* evolve: the tests that come before the generation call, in order.
EvolveStep(state, dry_run) ==
    IF state.winner = NoProduct THEN "no_winner"
    ELSE IF ~dry_run /\ ~state.can_evolve THEN "not_ready"
    ELSE IF dry_run THEN "dry_run"
    ELSE "generate"

\* Mutant of GenerationFailed: the exception's message is dropped.
GenerationFailedNoMessage(resp, gen) ==
    [resp EXCEPT !.message = "Evolution failed",
                 !.generation_called = TRUE, !.generation_message = gen.message]

\* evolve: except Exception as e: return EvolutionResponse(success=False, message=str(e))
GenerationFailed(resp, gen) ==
    [resp EXCEPT !.message = gen.message,
                 !.generation_called = TRUE, !.generation_message = gen.message]

\* evolve(ctx, dry_run); gen is what the generation call does if it is
\* reached, newId is what _generate_product_id draws if it is reached.
Evolve(init, db, dry_run, gen, newId) ==
    LET w0 == EnsureInitialized(init, db)
        db1 == ApplyAll(db, w0)
        resp == [EvolutionResponse EXCEPT !.dry_run_arg = dry_run]
    IN IF db1.metadata = NoMetadata THEN Raise("evolve", w0)
       ELSE IF GetProducts(db1, db1.metadata.product_ids) = <<>> THEN Raise("evolve", w0)
       ELSE LET state == CheckEvolutionState(db1)
                step == EvolveStep(state, dry_run)
            IN CASE step = "no_winner" ->
                    [writes |-> w0,
                     ret |-> [resp EXCEPT !.message = "No products have been favorited yet"]]
                 [] step = "not_ready" ->
                    [writes |-> w0,
                     ret |-> [resp EXCEPT !.message = "Need more favorites",
                                          !.not_ready = TRUE,
                                          !.votes_until_evolution = state.votes_until_evolution,
                                          !.votes_to_evolve = VOTES_TO_EVOLVE]]
                 [] step = "dry_run" ->
                    [writes |-> w0,
                     ret |-> [resp EXCEPT !.success = TRUE, !.message = "Would evolve",
                                          !.dry_run = TRUE,
                                          !.would_evolve = state.winner]]
                 [] step = "generate" /\ ~gen.ok ->
                    [writes |-> w0, ret |-> GenerationFailed(resp, gen)]
                 [] step = "generate" /\ gen.ok ->
                    LET w1 == ApplyEvolution(db1, state.winner, newId)
                        db2 == ApplyAll(db1, w1)
                    IN [writes |-> w0 \o w1,
                        ret |-> [resp EXCEPT !.success = TRUE, !.message = "evolved",
                                             !.generation = db2.metadata.generation,
                                             !.evolved_from = state.winner,
                                             !.evolved_to = EvolvedProduct(state.winner, newId),
                                             !.generation_called = TRUE,
                                             !.generation_ok = TRUE]]

\* Mutant of ResetDeletes: every id is deleted, listed or not.
ResetDeletesEverything(ids) == [i \in 1..MaxId |-> DeleteProduct(i)]

\* reset(): the deletes of the loop over metadata.product_ids.
ResetDeletes(ids) == [i \in 1..Len(ids) |-> DeleteProduct(ids[i])]

\* Mutant of Reset: the views of the live entries are reset (as
\* reset_product_views does) and the catalog is not re-seeded.
ResetViewsOnly(init, db) ==
    LET w0 == EnsureInitialized(init, db)
        db1 == ApplyAll(db, w0)
    IN IF db1.metadata = NoMetadata THEN Raise("reset", w0)
       ELSE [writes |-> w0 \o ResetOthers(db1, db1.metadata.product_ids, Null),
             ret |-> [op |-> "reset", raised |-> FALSE,
                      metadata |-> db1.metadata,
                      products |-> GetProducts(db1, db1.metadata.product_ids)]]

\* reset()
Reset(init, db) ==
    LET w0 == EnsureInitialized(init, db)
        db1 == ApplyAll(db, w0)
    IN IF db1.metadata = NoMetadata THEN Raise("reset", w0)
       ELSE [writes |-> w0 \o ResetDeletes(db1.metadata.product_ids) \o InitializeWrites,
             ret |-> [op |-> "reset", raised |-> FALSE,
                      metadata |-> InitialMetadata(InitialProducts),
                      products |-> InitialProducts]]

----------------------------------------------------------------------------
(* The store used by one client at a time: every operation runs to         *)
(* completion before the next one starts.                                  *)

Init ==
    /\ products = EmptyDB.products
    /\ metadata = EmptyDB.metadata
    /\ initialized = FALSE
    /\ nextId = NumSeeds + 1
    /\ completedViews = 0
    /\ pre = EmptyDB
    /\ writes = <<>>
    /\ ret = [op |-> "none", raised |-> FALSE]
    /\ evolutions = 0
    /\ calls = [c \in Callers |-> IdleCall]

\* Whether a sequence of writes holds the metadata write of initialize() or
\* of apply_evolution(), which start a generation.
StartsGeneration(ws) ==
    \E i \in 1..Len(ws) :
        /\ ws[i].kind = "put_metadata"
        /\ ws[i].value.votes_this_generation = 0

\* Whether an operation started in this state runs the lazy initialize().
RunsInitialize == EnsureInitialized(initialized, DB) # <<>>

\* The effect of a completed operation r = [writes, ret].
Complete(r, flag) ==
    LET db == ApplyAll(DB, r.writes)
    IN /\ products' = db.products
       /\ metadata' = db.metadata
       /\ initialized' = flag
       /\ pre' = DB
       /\ writes' = r.writes
       /\ ret' = r.ret
       /\ UNCHANGED calls

GetStateOp ==
    /\ Complete(GetState(initialized, DB), TRUE)
    /\ completedViews' = IF StartsGeneration(writes') THEN 0 ELSE completedViews
    /\ evolutions' = IF RunsInitialize THEN 0 ELSE evolutions
    /\ UNCHANGED nextId

MarkProductViewedOp ==
    \E id \in ViewIds :
        LET r == MarkProductViewed(initialized, DB, id)
            found == ~r.ret.raised /\ r.ret.found
        IN /\ found =>
                  /\ r.ret.product.views <= MaxVotes
                  /\ ApplyAll(DB, r.writes).metadata.votes_this_generation <= MaxVotes
           /\ Complete(r, TRUE)
           /\ completedViews' =
                  (IF StartsGeneration(r.writes) THEN 0 ELSE completedViews)
                      + (IF found THEN 1 ELSE 0)
           /\ evolutions' = IF RunsInitialize THEN 0 ELSE evolutions
           /\ UNCHANGED nextId

\* Whether evolve(dry_run) reaches the generation call from this state.
ReachesGeneration(dry_run) ==
    Evolve(initialized, DB, dry_run, GenerationSucceeds, nextId).ret.generation_called

EvolveOp ==
    \E dry_run \in BOOLEAN :
    \E gen \in IF ReachesGeneration(dry_run) THEN GenerationOutcomes
                ELSE {GenerationSucceeds} :
        LET r == Evolve(initialized, DB, dry_run, gen, nextId)
            generated == r.ret.generation_called /\ r.ret.generation_ok
        IN /\ generated => nextId <= MaxId
           /\ Complete(r, TRUE)
           /\ nextId' = IF generated THEN nextId + 1 ELSE nextId
           /\ completedViews' = IF StartsGeneration(r.writes) THEN 0 ELSE completedViews
           /\ evolutions' = (IF RunsInitialize THEN 0 ELSE evolutions)
                                 + (IF generated THEN 1 ELSE 0)

\* reset() clears the flag after its deletes; a get_metadata that raised left
\* it set.
ResetOp ==
    /\ Complete(Reset(initialized, DB), Reset(initialized, DB).ret.raised)
    /\ completedViews' = 0
    /\ evolutions' = IF Reset(initialized, DB).ret.raised THEN evolutions ELSE 0
    /\ UNCHANGED nextId

\* A new Store object over the same backend: Store.__init__.
NewStore ==
    /\ initialized' = FALSE
    /\ pre' = DB
    /\ writes' = <<>>
    /\ ret' = [op |-> "new_store", raised |-> FALSE]
    /\ UNCHANGED <<products, metadata, nextId, completedViews, evolutions, calls>>

Next == GetStateOp \/ MarkProductViewedOp \/ EvolveOp \/ ResetOp \/ NewStore

Spec == Init /\ [][Next]_vars

----------------------------------------------------------------------------
(* The store with stops: execution may stop inside an operation, between   *)
(* two of its backend writes, and a new Store is then opened over the same *)
(* backend.  (A stop before the first write or after the last one leaves   *)
(* the backend as NewStore finds it.)                                      *)

\* The operation r = [writes, ret] stopped after its first k writes.
StopAfter(r, k, op) ==
    LET ws == SubSeq(r.writes, 1, k)
        db == ApplyAll(DB, ws)
    IN /\ products' = db.products
       /\ metadata' = db.metadata
       /\ initialized' = FALSE
       /\ pre' = DB
       /\ writes' = ws
       /\ ret' = [op |-> "stopped", raised |-> FALSE, during |-> op]
       /\ UNCHANGED calls
       /\ completedViews' = IF StartsGeneration(ws) THEN 0 ELSE completedViews
       /\ evolutions' = IF RunsInitialize /\ k >= Len(EnsureInitialized(initialized, DB))
                         THEN 0 ELSE evolutions

StopInGetState ==
    LET r == GetState(initialized, DB)
    IN \E k \in 1..(Len(r.writes) - 1) :
           /\ StopAfter(r, k, "get_state")
           /\ UNCHANGED nextId

StopInMarkProductViewed ==
    \E id \in ViewIds :
        LET r == MarkProductViewed(initialized, DB, id)
            found == ~r.ret.raised /\ r.ret.found
        IN /\ found => r.ret.product.views <= MaxVotes
           /\ \E k \in 1..(Len(r.writes) - 1) :
                  /\ StopAfter(r, k, "mark_product_viewed")
                  /\ UNCHANGED nextId

\* A stop inside apply_evolution comes after _generate_product_id drew the id.
StopInEvolve ==
    LET r == Evolve(initialized, DB, FALSE, GenerationSucceeds, nextId)
        generated == r.ret.generation_called /\ r.ret.generation_ok
    IN /\ generated => nextId <= MaxId
       /\ \E k \in 1..(Len(r.writes) - 1) :
              /\ StopAfter(r, k, "evolve")
              /\ nextId' = IF generated THEN nextId + 1 ELSE nextId

StopInReset ==
    LET r == Reset(initialized, DB)
    IN \E k \in 1..(Len(r.writes) - 1) :
           /\ StopAfter(r, k, "reset")
           /\ UNCHANGED nextId

NextWithStops ==
    \/ Next
    \/ StopInGetState \/ StopInMarkProductViewed \/ StopInEvolve \/ StopInReset

SpecWithStops == Init /\ [][NextWithStops]_vars

----------------------------------------------------------------------------
(* The store driven through its persistence methods, as the tests of       *)
(* test_store.py do: update_product and update_metadata write without      *)
(* looking at the flag, get_product and get_metadata run                   *)
(* _ensure_initialized first.  The backend keeps a record as it was put:   *)
(* the field-by-field serialization is the PydanticAdapter's, outside the  *)
(* repository.                                                             *)

\* The records the methods are called with: a seed id and a generated id,
\* with and without views and parent.
ApiProducts ==
    {[id |-> i, version |-> IF par = Null THEN 1 ELSE 2, views |-> n,
      parent_id |-> par] :
         i \in {1, MaxId}, n \in {0, 1}, par \in {Null, NumSeeds}}

ApiMetadatas ==
    {[generation |-> 1, last_winner_id |-> w, votes_this_generation |-> 0,
      product_ids |-> ids] :
         w \in {Null, 1},
         ids \in {[i \in 1..NumSeeds |-> i], [i \in 1..NumSeeds |-> NumSeeds + 1 - i]}}

\* update_product(product)
UpdateProduct(p) ==
    [writes |-> <<PutProduct(p)>>,
     ret |-> [op |-> "update_product", raised |-> FALSE, arg |-> p]]

\* get_product(product_id)
GetProduct(init, db, id) ==
    LET w0 == EnsureInitialized(init, db)
    IN [writes |-> w0,
        ret |-> [op |-> "get_product", raised |-> FALSE, product_id |-> id,
                 value |-> Lookup(ApplyAll(db, w0), id)]]

\* update_metadata(metadata)
UpdateMetadata(m) ==
    [writes |-> <<PutMetadata(m)>>,
     ret |-> [op |-> "update_metadata", raised |-> FALSE, arg |-> m]]

\* get_metadata()
GetMetadata(init, db) ==
    LET w0 == EnsureInitialized(init, db)
        db1 == ApplyAll(db, w0)
    IN IF db1.metadata = NoMetadata THEN Raise("get_metadata", w0)
       ELSE [writes |-> w0,
             ret |-> [op |-> "get_metadata", raised |-> FALSE,
                      value |-> db1.metadata]]

\* What a read remembers of the call made just before it.
Previous ==
    IF ret.op \in {"update_product", "update_metadata"}
    THEN [op |-> ret.op, arg |-> ret.arg]
    ELSE [op |-> ret.op]

UpdateProductCall ==
    \E p \in ApiProducts :
        /\ Complete(UpdateProduct(p), initialized)
        /\ UNCHANGED <<nextId, completedViews, evolutions>>

GetProductCall ==
    \E id \in {1, MaxId} :
        LET r == GetProduct(initialized, DB, id)
        IN /\ Complete([r EXCEPT !.ret = r.ret @@ [previous |-> Previous]], TRUE)
           /\ UNCHANGED <<nextId, completedViews, evolutions>>

UpdateMetadataCall ==
    \E m \in ApiMetadatas :
        /\ Complete(UpdateMetadata(m), initialized)
        /\ UNCHANGED <<nextId, completedViews, evolutions>>

GetMetadataCall ==
    LET r == GetMetadata(initialized, DB)
    IN /\ Complete([r EXCEPT !.ret = r.ret @@ [previous |-> Previous]], TRUE)
       /\ UNCHANGED <<nextId, completedViews, evolutions>>

NextApi ==
    \/ UpdateProductCall \/ GetProductCall
    \/ UpdateMetadataCall \/ GetMetadataCall
    \/ NewStore

SpecApi == Init /\ [][NextApi]_vars

----------------------------------------------------------------------------
(* The store with clients that keep voting and evolving: the operations of *)
(* Spec, with weak fairness of the views that find a live entry and of the *)
(* non-dry-run evolves whose generation call succeeds.  The two fair steps *)
(* are written out write by write, on the state variables themselves.      *)

\* mark_product_viewed(id) of an id that product_ids lists and that resolves
\* (after the lazy initialize(), on a backend with no metadata).
ViewOfLiveEntry ==
    \E id \in Ids :
        LET w0 == EnsureInitialized(initialized, DB)
            db1 == ApplyAll(DB, w0)
            product == ViewedProduct(db1.products[id])
            m == ViewedMetadata(db1.metadata)
        IN /\ db1.products[id] # NoProduct
           /\ \E k \in 1..Len(db1.metadata.product_ids) :
                  db1.metadata.product_ids[k] = id
           /\ product.views <= MaxVotes
           /\ m.votes_this_generation <= MaxVotes
           /\ products' = [db1.products EXCEPT ![id] = product]
           /\ metadata' = m
           /\ initialized' = TRUE
           /\ pre' = DB
           /\ writes' = w0 \o <<PutProduct(product), PutMetadata(m)>>
           /\ ret' = [op |-> "mark_product_viewed", raised |-> FALSE,
                      product_id |-> id, found |-> TRUE, product |-> product,
                      is_leader |->
                          IsLeader([products |-> products', metadata |-> metadata'], id)]
           /\ completedViews' = (IF w0 # <<>> THEN 0 ELSE completedViews) + 1
           /\ evolutions' = IF w0 # <<>> THEN 0 ELSE evolutions
           /\ UNCHANGED <<nextId, calls>>

\* evolve(dry_run=False) on an eligible store, with a generation call that
\* succeeds: check_evolution_state, then the writes of apply_evolution.
EvolveApplied ==
    /\ metadata # NoMetadata
    /\ GetProducts(DB, metadata.product_ids) # <<>>
    /\ LET winner == MaxByViews(GetProducts(DB, metadata.product_ids))
           evolved == EvolvedProduct(winner, nextId)
           others == SelectSeq(metadata.product_ids,
                               LAMBDA pid : pid # winner.id /\ Lookup(DB, pid) # NoProduct)
           reset == [k \in 1..Len(others) |->
                         PutProduct([products[others[k]] EXCEPT !.views = 0])]
           m == EvolvedMetadata(metadata, winner, evolved)
       IN /\ winner.views # 0
          /\ CanEvolve(VotesUntil(metadata))
          /\ nextId <= MaxId
          /\ products' =
                 [i \in DOMAIN products |->
                      IF i = nextId THEN evolved
                      ELSE IF \E k \in 1..Len(others) : others[k] = i
                           THEN [products[i] EXCEPT !.views = 0]
                           ELSE products[i]]
          /\ metadata' = m
          /\ initialized' = TRUE
          /\ pre' = DB
          /\ writes' = <<PutProduct(evolved)>> \o reset \o <<PutMetadata(m)>>
          /\ ret' = [EvolutionResponse EXCEPT
                         !.success = TRUE, !.message = "evolved",
                         !.generation = m.generation,
                         !.evolved_from = winner, !.evolved_to = evolved,
                         !.generation_called = TRUE, !.generation_ok = TRUE]
          /\ nextId' = nextId + 1
          /\ completedViews' = 0
          /\ evolutions' = evolutions + 1
          /\ UNCHANGED calls

SpecFair ==
    /\ Init /\ [][Next]_vars
    /\ WF_vars(ViewOfLiveEntry)
    /\ WF_vars(EvolveApplied)

----------------------------------------------------------------------------
(* Concurrent callers.  The tools are coroutines on one event loop and one *)
(* Store: a coroutine runs until it awaits a backend call, and another may *)
(* run before that call is made.  Each action below is one backend call of *)
(* one mark_product_viewed coroutine with the statements that follow it up *)
(* to the next backend call.                                               *)

Backend(db) ==
    /\ products' = db.products
    /\ metadata' = db.metadata

Sequential == <<nextId, completedViews, pre, writes, ret, evolutions>>

\* The event loop starts mark_product_viewed(id) for caller c.
StartCall(c) ==
    /\ calls[c].pc = "idle"
    /\ \E id \in ViewIds :
           calls' = [calls EXCEPT ![c].pc = "ensure_initialized", ![c].product_id = id]
    /\ UNCHANGED <<products, metadata, initialized>>
    /\ UNCHANGED Sequential

\* get_product -> _ensure_initialized: the flag, then the metadata read.
EnsureInitializedStep(c) ==
    /\ calls[c].pc = "ensure_initialized"
    /\ IF initialized
       THEN /\ calls' = [calls EXCEPT ![c].pc = "get_product"]
            /\ UNCHANGED initialized
       ELSE IF metadata = NoMetadata
       THEN /\ calls' = [calls EXCEPT ![c].pc = "initialize", ![c].seeded = 0,
                                      ![c].ran_initialize = TRUE]
            /\ UNCHANGED initialized
       ELSE /\ calls' = [calls EXCEPT ![c].pc = "get_product"]
            /\ initialized' = TRUE
    /\ UNCHANGED <<products, metadata>>
    /\ UNCHANGED Sequential

\* initialize(): the next update_product of its loop.
InitializeProduct(c) ==
    /\ calls[c].pc = "initialize"
    /\ calls[c].seeded < NumSeeds
    /\ Backend(Apply(DB, PutProduct(InitialProducts[calls[c].seeded + 1])))
    /\ calls' = [calls EXCEPT ![c].seeded = calls[c].seeded + 1]
    /\ UNCHANGED initialized
    /\ UNCHANGED Sequential

\* initialize(): its update_metadata; _ensure_initialized then sets the flag.
InitializeMetadata(c) ==
    /\ calls[c].pc = "initialize"
    /\ calls[c].seeded = NumSeeds
    /\ Backend(Apply(DB, PutMetadata(InitialMetadata(InitialProducts))))
    /\ initialized' = TRUE
    /\ calls' = [calls EXCEPT ![c].pc = "get_product", ![c].seeded = 0]
    /\ UNCHANGED Sequential

\* product = await self.get_product(product_id); None is returned at once,
\* otherwise product.views += 1 on the caller's copy.
GetProductStep(c) ==
    /\ calls[c].pc = "get_product"
    /\ LET product == Lookup(DB, calls[c].product_id)
       IN calls' = IF product = NoProduct
                   THEN [calls EXCEPT ![c].pc = "returned"]
                   ELSE [calls EXCEPT ![c].pc = "update_product",
                                      ![c].product = ViewedProduct(product)]
    /\ UNCHANGED <<products, metadata, initialized>>
    /\ UNCHANGED Sequential

\* await self.update_product(product)
UpdateProductStep(c) ==
    /\ calls[c].pc = "update_product"
    /\ Backend(Apply(DB, PutProduct(calls[c].product)))
    /\ calls' = [calls EXCEPT ![c].pc = "get_metadata"]
    /\ UNCHANGED initialized
    /\ UNCHANGED Sequential

\* metadata = await self.get_metadata(); metadata.votes_this_generation += 1
\* on the caller's copy.  The flag is set by now, and a missing record raises.
GetMetadataStep(c) ==
    /\ calls[c].pc = "get_metadata"
    /\ initialized
    /\ metadata # NoMetadata
    /\ calls' = [calls EXCEPT ![c].pc = "update_metadata",
                              ![c].metadata = ViewedMetadata(metadata)]
    /\ UNCHANGED <<products, metadata, initialized>>
    /\ UNCHANGED Sequential

\* await self.update_metadata(metadata)
UpdateMetadataStep(c) ==
    /\ calls[c].pc = "update_metadata"
    /\ Backend(Apply(DB, PutMetadata(calls[c].metadata)))
    /\ calls' = [calls EXCEPT ![c].pc = "get_all_product_ids", ![c].metadata = NoMetadata]
    /\ UNCHANGED initialized
    /\ UNCHANGED Sequential

\* get_top_product -> get_products -> get_all_product_ids: the metadata read.
GetAllProductIdsStep(c) ==
    /\ calls[c].pc = "get_all_product_ids"
    /\ metadata # NoMetadata
    /\ calls' = [calls EXCEPT ![c].pc = "get_products",
                              ![c].ids = metadata.product_ids, ![c].found = <<>>]
    /\ UNCHANGED <<products, metadata, initialized>>
    /\ UNCHANGED Sequential

\* get_products: the next get_product of its loop; after the last one
\* get_top_product takes the max and mark_product_viewed returns.
GetProductsStep(c) ==
    /\ calls[c].pc = "get_products"
    /\ calls[c].ids # <<>>
    /\ LET p == Lookup(DB, Head(calls[c].ids))
           found == IF p = NoProduct THEN calls[c].found ELSE Append(calls[c].found, p)
           leader == IF found = <<>> THEN NoProduct ELSE MaxByViews(found)
       IN calls' = IF Tail(calls[c].ids) # <<>>
                   THEN [calls EXCEPT ![c].ids = Tail(calls[c].ids), ![c].found = found]
                   ELSE [calls EXCEPT ![c].pc = "returned", ![c].ids = <<>>,
                                      ![c].found = <<>>,
                                      ![c].returned = calls[c].product,
                                      ![c].is_leader =
                                          /\ leader # NoProduct
                                          /\ leader.id = calls[c].product_id]
    /\ UNCHANGED <<products, metadata, initialized>>
    /\ UNCHANGED Sequential

NextConcurrent ==
    \E c \in Callers :
        \/ StartCall(c)
        \/ EnsureInitializedStep(c)
        \/ InitializeProduct(c)
        \/ InitializeMetadata(c)
        \/ GetProductStep(c)
        \/ UpdateProductStep(c)
        \/ GetMetadataStep(c)
        \/ UpdateMetadataStep(c)
        \/ GetAllProductIdsStep(c)
        \/ GetProductsStep(c)

SpecConcurrent == Init /\ [][NextConcurrent]_vars

----------------------------------------------------------------------------
(* Concurrent evolve and reset.  Clients first vote one at a time; then    *)
(* each caller runs one non-dry-run evolve or one reset as a coroutine on  *)
(* the same Store, one action per backend call (or per generation call)    *)
(* with the statements that follow it up to the next one.  The metadata    *)
(* record exists throughout, so each _ensure_initialized() at most reads   *)
(* it and sets the flag.                                                   *)

\* A put under a key the backend has not seen adds the key (the ids that
\* _generate_product_id draws are not bounded here).
BackendApply(db, w) ==
    IF w.kind = "put_product" /\ w.key \notin DOMAIN db.products
    THEN [db EXCEPT !.products = (w.key :> w.value) @@ db.products]
    ELSE Apply(db, w)

\* The position and the locals of an evolve or reset coroutine.
EvolvingCall ==
    [pc |-> "idle", op |-> "none", metadata |-> NoMetadata, ids |-> <<>>,
     products |-> <<>>, winner |-> NoProduct, evolved |-> NoProduct,
     prod |-> NoProduct, seeded |-> 0, response |-> "none", generation |-> Null]

Returned(call, response) ==
    [EvolvingCall EXCEPT !.pc = "returned", !.op = call.op, !.response = response,
                         !.winner = call.winner, !.evolved = call.evolved]

Votes == <<completedViews, pre, writes, ret, evolutions>>

\* A client votes, before the concurrent callers start.
VoteBeforeCalls ==
    /\ \A c \in Callers : calls[c].pc = "idle"
    /\ MarkProductViewedOp

\* The event loop starts evolve(ctx) for caller c.
StartEvolve(c) ==
    /\ calls[c].pc = "idle"
    /\ metadata # NoMetadata
    /\ calls' = [calls EXCEPT ![c] = [EvolvingCall EXCEPT !.pc = "check_get_metadata",
                                                          !.op = "evolve"]]
    /\ UNCHANGED <<products, metadata, initialized, nextId>>
    /\ UNCHANGED Votes

\* The event loop starts reset() for caller c.
StartReset(c) ==
    /\ calls[c].pc = "idle"
    /\ metadata # NoMetadata
    /\ calls' = [calls EXCEPT ![c] = [EvolvingCall EXCEPT !.pc = "reset_get_metadata",
                                                          !.op = "reset"]]
    /\ UNCHANGED <<products, metadata, initialized, nextId>>
    /\ UNCHANGED Votes

\* check_evolution_state -> get_metadata_and_products: the metadata read.
CheckGetMetadata(c) ==
    /\ calls[c].pc = "check_get_metadata"
    /\ calls' = [calls EXCEPT ![c].pc = "check_get_products",
                              ![c].metadata = metadata,
                              ![c].ids = metadata.product_ids]
    /\ initialized' = TRUE
    /\ UNCHANGED <<products, metadata, nextId>>
    /\ UNCHANGED Votes

\* What check_evolution_state and evolve do with the products read: max()
\* raises on an empty list, a refusal returns, otherwise the generation call
\* comes next.
Checked(call, ps) ==
    IF ps = <<>> THEN Returned(call, "raised")
    ELSE IF MaxByViews(ps).views = 0 THEN Returned(call, "no_winner")
    ELSE IF ~CanEvolve(VotesUntil(call.metadata)) THEN Returned(call, "not_ready")
    ELSE [call EXCEPT !.pc = "generate", !.winner = MaxByViews(ps),
                      !.metadata = NoMetadata, !.ids = <<>>, !.products = <<>>]

\* get_products: the next get_product of its loop, and after the last one the
\* rest of check_evolution_state and evolve up to the generation call.
CheckGetProducts(c) ==
    /\ calls[c].pc = "check_get_products"
    /\ calls[c].ids # <<>>
    /\ LET p == Lookup(DB, Head(calls[c].ids))
           ps == IF p = NoProduct THEN calls[c].products
                 ELSE Append(calls[c].products, p)
       IN calls' = IF Tail(calls[c].ids) # <<>>
                   THEN [calls EXCEPT ![c].ids = Tail(calls[c].ids), ![c].products = ps]
                   ELSE [calls EXCEPT ![c] = Checked(calls[c], ps)]
    /\ initialized' = TRUE
    /\ UNCHANGED <<products, metadata, nextId>>
    /\ UNCHANGED Votes

\* evolution = await self._generate_evolution(ctx, state.winner)
Generate(c) ==
    /\ calls[c].pc = "generate"
    /\ \E gen \in GenerationOutcomes :
           calls' = IF gen.ok
                    THEN [calls EXCEPT ![c].pc = "apply_get_metadata"]
                    ELSE [calls EXCEPT ![c] = Returned(calls[c], "generation_failed")]
    /\ UNCHANGED <<products, metadata, initialized, nextId>>
    /\ UNCHANGED Votes

\* apply_evolution: metadata = await self.get_metadata(), then the Product
\* it builds under a fresh id.
ApplyGetMetadata(c) ==
    /\ calls[c].pc = "apply_get_metadata"
    /\ calls' = [calls EXCEPT ![c].pc = "apply_update_evolved",
                              ![c].metadata = metadata,
                              ![c].evolved = EvolvedProduct(calls[c].winner, nextId)]
    /\ nextId' = nextId + 1
    /\ initialized' = TRUE
    /\ UNCHANGED <<products, metadata>>
    /\ UNCHANGED Votes

\* The loop of apply_evolution over the other ids: where it goes next.
NextOther(call, ids) ==
    IF ids = <<>>
    THEN [call EXCEPT !.pc = "apply_update_metadata", !.ids = <<>>, !.prod = NoProduct]
    ELSE [call EXCEPT !.pc = "apply_get_product", !.ids = ids, !.prod = NoProduct]

\* apply_evolution: await self.update_product(evolved)
ApplyUpdateEvolved(c) ==
    /\ calls[c].pc = "apply_update_evolved"
    /\ Backend(BackendApply(DB, PutProduct(calls[c].evolved)))
    /\ calls' = [calls EXCEPT ![c] =
                     NextOther(calls[c],
                               SelectSeq(calls[c].metadata.product_ids,
                                         LAMBDA pid : pid # calls[c].winner.id))]
    /\ UNCHANGED <<initialized, nextId>>
    /\ UNCHANGED Votes

\* apply_evolution: prod = await self.get_product(pid); prod.views = 0
ApplyGetProduct(c) ==
    /\ calls[c].pc = "apply_get_product"
    /\ LET prod == Lookup(DB, Head(calls[c].ids))
       IN calls' = IF prod = NoProduct
                   THEN [calls EXCEPT ![c] = NextOther(calls[c], Tail(calls[c].ids))]
                   ELSE [calls EXCEPT ![c].pc = "apply_update_product",
                                      ![c].prod = [prod EXCEPT !.views = 0]]
    /\ initialized' = TRUE
    /\ UNCHANGED <<products, metadata, nextId>>
    /\ UNCHANGED Votes

\* apply_evolution: await self.update_product(prod)
ApplyUpdateProduct(c) ==
    /\ calls[c].pc = "apply_update_product"
    /\ Backend(BackendApply(DB, PutProduct(calls[c].prod)))
    /\ calls' = [calls EXCEPT ![c] = NextOther(calls[c], Tail(calls[c].ids))]
    /\ UNCHANGED <<initialized, nextId>>
    /\ UNCHANGED Votes

\* apply_evolution: await self.update_metadata(metadata)
ApplyUpdateMetadata(c) ==
    /\ calls[c].pc = "apply_update_metadata"
    /\ Backend(BackendApply(DB, PutMetadata(EvolvedMetadata(calls[c].metadata,
                                                            calls[c].winner,
                                                            calls[c].evolved))))
    /\ calls' = [calls EXCEPT ![c].pc = "evolve_get_metadata", ![c].metadata = NoMetadata]
    /\ UNCHANGED <<initialized, nextId>>
    /\ UNCHANGED Votes

\* evolve: metadata = await self.get_metadata(), then the response.
EvolveGetMetadata(c) ==
    /\ calls[c].pc = "evolve_get_metadata"
    /\ calls' = [calls EXCEPT ![c] = [Returned(calls[c], "success")
                                         EXCEPT !.generation = metadata.generation]]
    /\ initialized' = TRUE
    /\ UNCHANGED <<products, metadata, nextId>>
    /\ UNCHANGED Votes

\* reset: metadata = await self.get_metadata()
ResetGetMetadata(c) ==
    /\ calls[c].pc = "reset_get_metadata"
    /\ calls' = [calls EXCEPT ![c].pc = "reset_delete_product",
                              ![c].ids = metadata.product_ids]
    /\ initialized' = TRUE
    /\ UNCHANGED <<products, metadata, nextId>>
    /\ UNCHANGED Votes

\* reset: the next delete_product of its loop; after the last one the flag is
\* cleared and initialize() starts.
ResetDeleteProduct(c) ==
    /\ calls[c].pc = "reset_delete_product"
    /\ calls[c].ids # <<>>
    /\ Backend(BackendApply(DB, DeleteProduct(Head(calls[c].ids))))
    /\ IF Tail(calls[c].ids) # <<>>
       THEN /\ calls' = [calls EXCEPT ![c].ids = Tail(calls[c].ids)]
            /\ UNCHANGED initialized
       ELSE /\ calls' = [calls EXCEPT ![c].pc = "reset_initialize", ![c].ids = <<>>,
                                      ![c].seeded = 0]
            /\ initialized' = FALSE
    /\ UNCHANGED nextId
    /\ UNCHANGED Votes

\* reset -> initialize(): the next update_product of its loop.
ResetInitializeProduct(c) ==
    /\ calls[c].pc = "reset_initialize"
    /\ calls[c].seeded < NumSeeds
    /\ Backend(BackendApply(DB, PutProduct(InitialProducts[calls[c].seeded + 1])))
    /\ calls' = [calls EXCEPT ![c].seeded = calls[c].seeded + 1]
    /\ UNCHANGED <<initialized, nextId>>
    /\ UNCHANGED Votes

\* reset -> initialize(): its update_metadata; reset returns.
ResetInitializeMetadata(c) ==
    /\ calls[c].pc = "reset_initialize"
    /\ calls[c].seeded = NumSeeds
    /\ Backend(BackendApply(DB, PutMetadata(InitialMetadata(InitialProducts))))
    /\ calls' = [calls EXCEPT ![c] = Returned(calls[c], "reset")]
    /\ UNCHANGED <<initialized, nextId>>
    /\ UNCHANGED Votes

NextEvolving ==
    \/ VoteBeforeCalls
    \/ \E c \in Callers :
           \/ StartEvolve(c)
           \/ StartReset(c)
           \/ CheckGetMetadata(c)
           \/ CheckGetProducts(c)
           \/ Generate(c)
           \/ ApplyGetMetadata(c)
           \/ ApplyUpdateEvolved(c)
           \/ ApplyGetProduct(c)
           \/ ApplyUpdateProduct(c)
           \/ ApplyUpdateMetadata(c)
           \/ EvolveGetMetadata(c)
           \/ ResetGetMetadata(c)
           \/ ResetDeleteProduct(c)
           \/ ResetInitializeProduct(c)
           \/ ResetInitializeMetadata(c)

SpecEvolving == Init /\ [][NextEvolving]_vars

----------------------------------------------------------------------------
(* Properties.  pre, writes and ret describe the last completed operation. *)

\* The live entries: the ids of product_ids that resolve, in order.
Live(db) == GetProducts(db, db.metadata.product_ids)

LiveIds(db) == {Live(db)[i].id : i \in 1..Len(Live(db))}

\* The largest views among the live entries (stated, not computed by a scan).
MaxLiveViews(db) ==
    CHOOSE v \in {Live(db)[i].views : i \in 1..Len(Live(db))} :
        \A j \in 1..Len(Live(db)) : Live(db)[j].views <= v

RECURSIVE SumViews(_)
SumViews(ps) == IF ps = <<>> THEN 0 ELSE Head(ps).views + SumViews(Tail(ps))

Persisted(db) == {i \in Ids : db.products[i] # NoProduct}

EvolveSucceeded ==
    /\ ret.op = "evolve" /\ ~ret.raised
    /\ ret.success /\ ~ret.dry_run_arg

ViewFound ==
    /\ ret.op = "mark_product_viewed" /\ ~ret.raised
    /\ ret.found

\* C1: after a successful non-dry-run evolve, product_ids has the length it
\* had, holds the new entry's id at the winner's position k and is unchanged at
\* every other position; the new entry is persisted with version =
\* winner.version + 1, parent_id = winner.id and views = 0.
C1_EvolveReplacesInPlace ==
    EvolveSucceeded =>
        LET old == pre.metadata.product_ids
            new == metadata.product_ids
            winner == ret.evolved_from
            evolved == ret.evolved_to
        IN /\ Len(new) = Len(old)
           /\ pre.products[winner.id] = winner
           /\ pre.products[evolved.id] = NoProduct
           /\ \E k \in 1..Len(old) :
                  /\ old[k] = winner.id
                  /\ new[k] = evolved.id
                  /\ \A j \in 1..Len(old) : j # k => new[j] = old[j]
           /\ products[evolved.id] = evolved
           /\ evolved.version = winner.version + 1
           /\ evolved.parent_id = winner.id
           /\ evolved.views = 0

\* C1 witness: an evolve replaced a winner that was not at the last position.
C1_Witness ==
    /\ EvolveSucceeded
    /\ pre.metadata.product_ids[1] = ret.evolved_from.id
    /\ metadata.product_ids[1] = ret.evolved_to.id

\* C2 as claimed: evolve(dry_run=True) changes nothing in any reachable state,
\* also on a store on which no operation has run yet.
C2_DryRunChangesNothingAnywhere ==
    (ret.op = "evolve" /\ ret.dry_run_arg) =>
        /\ products = pre.products
        /\ metadata = pre.metadata

\* C2 amended: evolve(dry_run=True) called when the metadata record exists
\* changes no stored record; called when it does not exist, its only writes are
\* those of the lazy initialize().
C2_DryRunChangesNothingOnceInitialized ==
    (ret.op = "evolve" /\ ret.dry_run_arg) =>
        IF pre.metadata # NoMetadata
        THEN /\ products = pre.products
             /\ metadata = pre.metadata
             /\ writes = <<>>
        ELSE writes = InitializeWrites

\* C2 witness: a dry run on an eligible catalog reported the winner.
C2_Witness ==
    /\ ret.op = "evolve" /\ ret.dry_run_arg /\ ret.success
    /\ pre.metadata # NoMetadata
    /\ pre.metadata.votes_this_generation >= VOTES_TO_EVOLVE
    /\ ret.would_evolve # NoProduct

\* C3: can_evolve holds exactly when the leader has views > 0 and
\* votes_this_generation >= VOTES_TO_EVOLVE; when the leader has views 0 the
\* winner is None and can_evolve false; and on a freshly initialized store
\* whose views all went to live entries, can_evolve is false after fewer than
\* VOTES_TO_EVOLVE views and true from the VOTES_TO_EVOLVE-th on.
C3_CanEvolveAtThreshold ==
    (metadata # NoMetadata /\ Live(DB) # <<>>) =>
        LET state == CheckEvolutionState(DB)
        IN /\ state.can_evolve <=>
                  /\ MaxLiveViews(DB) > 0
                  /\ metadata.votes_this_generation >= VOTES_TO_EVOLVE
           /\ MaxLiveViews(DB) = 0 =>
                  (state.winner = NoProduct /\ ~state.can_evolve)
           /\ MaxLiveViews(DB) > 0 => state.winner.views = MaxLiveViews(DB)
           /\ (/\ metadata.generation = 1
               /\ ViewFound
               /\ SumViews(Live(DB)) = completedViews) =>
                  (state.can_evolve <=> completedViews >= VOTES_TO_EVOLVE)

\* C3 witness: the VOTES_TO_EVOLVE-th view on a fresh store made it eligible.
C3_Witness ==
    /\ ViewFound
    /\ metadata.generation = 1
    /\ completedViews = VOTES_TO_EVOLVE
    /\ SumViews(Live(DB)) = completedViews
    /\ CheckEvolutionState(DB).can_evolve
    /\ ~CheckEvolutionState(pre).can_evolve

\* C4: mark_product_viewed on a persisted entry increases its stored views by 1
\* and votes_this_generation by 1, and returns the updated entry with is_leader
\* true exactly when get_top_product then returns that id.
C4_ViewCountsOnce ==
    (ViewFound /\ pre.products[ret.product_id] # NoProduct) =>
        /\ pre.metadata # NoMetadata
        /\ products[ret.product_id].views = pre.products[ret.product_id].views + 1
        /\ metadata.votes_this_generation = pre.metadata.votes_this_generation + 1
        /\ ret.product = products[ret.product_id]
        /\ ret.is_leader <=>
               /\ GetTopProduct(DB) # NoProduct
               /\ GetTopProduct(DB).id = ret.product_id

\* C4 witness: a view of a persisted entry that did not make it the leader.
C4_Witness ==
    /\ ViewFound
    /\ pre.products[ret.product_id] # NoProduct
    /\ ret.product_id \in LiveIds(DB)
    /\ ~ret.is_leader

\* C5: a view of A leaves the stored record of every other entry B unchanged,
\* and product_ids, generation and last_winner_id unchanged; it writes A.views
\* and votes_this_generation only.
C5_ViewTouchesOnlyItsEntry ==
    (ViewFound /\ pre.metadata # NoMetadata) =>
        LET A == ret.product_id
        IN /\ \A B \in Ids \ {A} : products[B] = pre.products[B]
           /\ products[A] = [pre.products[A] EXCEPT !.views = @ + 1]
           /\ metadata = [pre.metadata EXCEPT !.votes_this_generation = @ + 1]
           /\ writes = <<PutProduct(products[A]), PutMetadata(metadata)>>

\* C5 witness: A was viewed while another entry B held views of its own, after
\* an evolution.
C5_Witness ==
    /\ ViewFound
    /\ pre.metadata # NoMetadata
    /\ metadata.last_winner_id # Null
    /\ \E B \in Ids \ {ret.product_id} :
           products[B] # NoProduct /\ products[B].views > 0

\* C6: whenever at least one id of product_ids resolves, the leader given by
\* get_top_product, and reported by get_state as current_leader_id, is a live
\* entry whose views no other live entry exceeds.
C6_LeaderHasMaxViews ==
    (metadata # NoMetadata /\ Live(DB) # <<>>) =>
        LET leader == GetTopProduct(DB)
        IN /\ leader # NoProduct
           /\ \E i \in 1..Len(Live(DB)) : Live(DB)[i] = leader
           /\ \A i \in 1..Len(Live(DB)) : leader.views >= Live(DB)[i].views
           /\ (ret.op = "get_state" /\ ~ret.raised) =>
                  /\ ret.current_leader_id \in LiveIds(DB)
                  /\ products[ret.current_leader_id].views = MaxLiveViews(DB)

\* C6 witness: get_state named a leader while another entry was tied with it.
C6_Witness ==
    /\ ret.op = "get_state" /\ ~ret.raised
    /\ ret.current_leader_id # Null
    /\ \E i \in LiveIds(DB) \ {ret.current_leader_id} :
           /\ products[i].views = MaxLiveViews(DB)
           /\ products[i].views > 0

\* C7: after reset() the catalog is the freshly seeded one: product_ids is the
\* seed ids in seed order, there are as many live entries as seeds, all with
\* views 0, generation = 1, votes_this_generation = 0, last_winner_id = None.
C7_ResetReseeds ==
    (ret.op = "reset" /\ ~ret.raised) =>
        /\ metadata # NoMetadata
        /\ metadata.product_ids = [i \in 1..NumSeeds |-> SEED_PRODUCTS[i].id]
        /\ Len(Live(DB)) = NumSeeds
        /\ \A i \in 1..Len(Live(DB)) : Live(DB)[i].views = 0
        /\ \A i \in 1..NumSeeds : products[SEED_PRODUCTS[i].id] = SEED_PRODUCTS[i]
        /\ metadata.generation = 1
        /\ metadata.votes_this_generation = 0
        /\ metadata.last_winner_id = Null

\* C7 witness: a reset of a catalog that had evolved and held votes.
C7_Witness ==
    /\ ret.op = "reset" /\ ~ret.raised
    /\ pre.metadata # NoMetadata
    /\ pre.metadata.generation > 1
    /\ pre.metadata.votes_this_generation > 0
    /\ pre.metadata.product_ids # metadata.product_ids

\* C8: when the metadata record exists, the initialization path of a read or a
\* vote writes nothing, on the same Store or on a new one: no entry appears
\* or disappears, product_ids is unchanged and no views value is reset.
C8_SecondInitializationWritesNothing ==
    (/\ pre.metadata # NoMetadata
     /\ ~ret.raised
     /\ ret.op \in {"get_state", "mark_product_viewed"}) =>
        /\ Persisted(DB) = Persisted(pre)
        /\ metadata.product_ids = pre.metadata.product_ids
        /\ \A i \in Persisted(pre) : products[i].views >= pre.products[i].views
        /\ ret.op = "get_state" =>
               /\ writes = <<>>
               /\ products = pre.products
               /\ metadata = pre.metadata
        /\ ret.op = "mark_product_viewed" =>
               \A i \in 1..Len(writes) :
                   /\ writes[i].kind = "put_product" =>
                          writes[i].value.views = pre.products[writes[i].key].views + 1
                   /\ writes[i].kind = "put_metadata" =>
                          writes[i].value.votes_this_generation =
                              pre.metadata.votes_this_generation + 1

\* C8 witness: get_state on a new Store object over a backend that already
\* held votes.
C8_Witness ==
    /\ ret.op = "get_state" /\ ~ret.raised
    /\ ret.init_path = "metadata found"
    /\ metadata.votes_this_generation > 0
    /\ \E i \in Persisted(DB) : products[i].views > 0

\* The writes of the initialize() run by the last operation: all the writes of
\* an operation that found no metadata, the writes after the deletes of a reset.
InitializeWritesOfLastOperation ==
    IF ret.op = "reset"
    THEN SubSeq(writes, Len(writes) - NumSeeds, Len(writes))
    ELSE SubSeq(writes, 1, NumSeeds + 1)

RanInitialize ==
    /\ ~ret.raised
    /\ \/ ret.op = "reset"
       \/ ret.op \in {"get_state", "mark_product_viewed", "evolve"}
              /\ pre.metadata = NoMetadata

C10_FailedGenerationLeavesStore ==
    (/\ ret.op = "evolve"
     /\ ret.generation_called
     /\ ~ret.generation_ok) =>
        /\ ~ret.dry_run_arg
        /\ CheckEvolutionState(pre).can_evolve
        /\ ret.success = FALSE
        /\ ret.message = ret.generation_message
        /\ ret.evolved_to = NoProduct
        /\ writes = <<>>
        /\ products = pre.products
        /\ metadata = pre.metadata

\* C10 witness: a generation call failed with the message "invalid result".
C10_Witness ==
    /\ ret.op = "evolve"
    /\ ret.generation_called
    /\ ~ret.generation_ok
    /\ ret.message = "invalid result"
    /\ metadata.votes_this_generation >= VOTES_TO_EVOLVE

----------------------------------------------------------------------------
\* C11: evolve returns a result value instead of raising in every state in
\* which the metadata record exists, the states left by a stop at a write
\* boundary included (also when no id of product_ids resolves).
C11_EvolveNeverRaises ==
    (ret.op = "evolve" /\ pre.metadata # NoMetadata) => ~ret.raised

----------------------------------------------------------------------------
\* A non-dry-run evolve that returned, called while the metadata record
\* existed with votes_this_generation below the threshold.
EvolveBelowThreshold ==
    /\ ret.op = "evolve" /\ ~ret.raised /\ ~ret.dry_run_arg
    /\ pre.metadata # NoMetadata
    /\ pre.metadata.votes_this_generation < VOTES_TO_EVOLVE

\* C12 as stated: every non-dry-run evolve called while votes_this_generation <
\* VOTES_TO_EVOLVE, also when no vote has been cast, returns success = false
\* with votes_until_evolution = VOTES_TO_EVOLVE - votes_this_generation and
\* changes no stored record.
C12_RefusalAlwaysCarriesCount ==
    EvolveBelowThreshold =>
        /\ ~ret.success
        /\ ret.votes_until_evolution
               = VOTES_TO_EVOLVE - pre.metadata.votes_this_generation
        /\ writes = <<>> /\ DB = pre

\* C12, amended: such an evolve returns success = false and changes no stored
\* record; it carries votes_until_evolution = VOTES_TO_EVOLVE -
\* votes_this_generation when some live entry has views > 0, and carries no
\* count when no live entry has a view.
C12_RefusalCarriesCountOnceVoted ==
    EvolveBelowThreshold =>
        /\ ~ret.success
        /\ writes = <<>> /\ DB = pre
        /\ IF MaxLiveViews(pre) > 0
           THEN /\ ret.not_ready
                /\ ret.votes_until_evolution
                       = VOTES_TO_EVOLVE - pre.metadata.votes_this_generation
                /\ ret.votes_to_evolve = VOTES_TO_EVOLVE
           ELSE /\ ~ret.not_ready
                /\ ret.votes_until_evolution = Null

C12_Witness ==
    /\ EvolveBelowThreshold
    /\ pre.metadata.votes_this_generation > 0
    /\ ret.not_ready
    /\ ret.votes_until_evolution
           = VOTES_TO_EVOLVE - pre.metadata.votes_this_generation

----------------------------------------------------------------------------
\* The last operation was mark_product_viewed(id) for an id with no persisted
\* record when the call looked it up: none before the call, and not a seed id
\* that the call's own lazy initialize() persists on an empty backend.
ViewOfAbsentId ==
    /\ ret.op = "mark_product_viewed"
    /\ ret.product_id \notin Persisted(pre)
    /\ ~(pre.metadata = NoMetadata /\ ret.product_id \in 1..NumSeeds)

\* C13: mark_product_viewed never raises; for an id with no persisted record
\* it returns None, and on a store whose metadata exists it then writes
\* nothing: no entry is created and votes_this_generation is not incremented.
C13_AbsentIdReturnsNone ==
    /\ ret.op = "mark_product_viewed" => ~ret.raised
    /\ ViewOfAbsentId =>
           /\ ~ret.found
           /\ pre.metadata # NoMetadata =>
                  /\ writes = <<>>
                  /\ DB = pre
                  /\ metadata.votes_this_generation
                         = pre.metadata.votes_this_generation

C13_Witness ==
    /\ ViewOfAbsentId
    /\ ~ret.found
    /\ pre.metadata # NoMetadata
    /\ pre.metadata.votes_this_generation > 0

----------------------------------------------------------------------------
\* Every id in product_ids resolves to a persisted entry.
NoDanglingIds(db) ==
    \A i \in 1..Len(db.metadata.product_ids) :
        db.metadata.product_ids[i] \in Persisted(db)

\* C14: after every client operation run to completion, one after another,
\* the metadata record exists and every id in product_ids resolves to a
\* persisted entry.
C14_NoDanglingIds ==
    ret.op \in {"get_state", "mark_product_viewed", "evolve", "reset"} =>
        /\ metadata # NoMetadata
        /\ NoDanglingIds(DB)

\* A successful evolve left the winner's record persisted outside product_ids
\* and every listed id resolving.
C14_Witness ==
    /\ EvolveSucceeded
    /\ NoDanglingIds(DB)
    /\ ret.evolved_to.id \in Persisted(DB) \ Persisted(pre)
    /\ ret.evolved_from.id \in Persisted(DB) \ LiveIds(DB)

----------------------------------------------------------------------------
----------------------------------------------------------------------------
\* C16: every persisted entry with parent_id = null has version 1, and every
\* persisted entry whose parent record is still persisted has version =
\* parent.version + 1.
C16_VersionFollowsParent ==
    \A i \in Persisted(DB) :
        LET p == products[i]
        IN /\ p.parent_id = Null => p.version = 1
           /\ (p.parent_id # Null /\ p.parent_id \in Persisted(DB)) =>
                  p.version = products[p.parent_id].version + 1

\* After a reset that re-seeded the seed ids, an entry evolved before the
\* reset is still persisted one version above its re-seeded parent.
C16_Witness ==
    /\ ret.op = "reset" /\ ~ret.raised
    /\ \E i \in Persisted(DB) :
           /\ products[i].parent_id # Null
           /\ products[i].parent_id \in Persisted(DB)
           /\ products[i].version = products[products[i].parent_id].version + 1

----------------------------------------------------------------------------
\* C17: across a step that is neither a successful evolve nor a reset, every
\* live entry stays persisted with views at least what they were; right after
\* a successful evolve every live entry has views = 0.
C17_ViewsGrowBetweenEvolutions ==
    /\ (/\ ret.op \in {"get_state", "mark_product_viewed", "evolve", "new_store"}
        /\ ~EvolveSucceeded
        /\ pre.metadata # NoMetadata) =>
           \A i \in LiveIds(pre) :
               /\ i \in LiveIds(DB)
               /\ products[i].views >= pre.products[i].views
    /\ EvolveSucceeded =>
           \A i \in LiveIds(DB) : products[i].views = 0

\* A successful evolve reset the views of a live entry other than the new one.
C17_Witness ==
    /\ EvolveSucceeded
    /\ \E i \in LiveIds(DB) \ {ret.evolved_to.id} :
           /\ pre.products[i].views > 0
           /\ products[i].views = 0

----------------------------------------------------------------------------
\* C18: generation is 1 plus the number of successful non-dry-run evolves
\* since the last initialize or reset; a successful evolve increments it by 1,
\* sets last_winner_id to the id of the entry it replaced and
\* votes_this_generation to 0, and returns the incremented generation; a view,
\* get_state, dry-run, refused or failed evolve on a store whose metadata
\* exists leaves generation and last_winner_id as they were.
C18_GenerationCountsEvolutions ==
    /\ metadata # NoMetadata => metadata.generation = 1 + evolutions
    /\ EvolveSucceeded =>
           /\ metadata.generation = pre.metadata.generation + 1
           /\ ret.generation = metadata.generation
           /\ metadata.votes_this_generation = 0
           /\ \E k \in 1..Len(pre.metadata.product_ids) :
                  /\ pre.metadata.product_ids[k] = metadata.last_winner_id
                  /\ metadata.product_ids[k] = ret.evolved_to.id
    /\ (/\ ret.op \in {"get_state", "mark_product_viewed", "evolve"}
        /\ ~EvolveSucceeded
        /\ pre.metadata # NoMetadata) =>
           /\ metadata.generation = pre.metadata.generation
           /\ metadata.last_winner_id = pre.metadata.last_winner_id

C18_Witness ==
    /\ EvolveSucceeded
    /\ evolutions = 1
    /\ metadata.generation = 2
    /\ ret.generation = 2
    /\ metadata.last_winner_id = ret.evolved_from.id

----------------------------------------------------------------------------
\* get_product(p.id) called right after update_product(p).
ReloadOfProduct ==
    /\ ret.op = "get_product"
    /\ ret.previous.op = "update_product"
    /\ ret.previous.arg.id = ret.product_id

\* get_metadata() called right after update_metadata(m).
ReloadOfMetadata ==
    /\ ret.op = "get_metadata"
    /\ ~ret.raised
    /\ ret.previous.op = "update_metadata"

----------------------------------------------------------------------------
\* The ids of product_ids that resolve, in product_ids order.
ResolvingIds == SelectSeq(metadata.product_ids, LAMBDA id : id \in Persisted(DB))

\* C20: get_state does not raise; its products are exactly the entries of
\* product_ids that resolve, in product_ids order, and current_leader_id is
\* the id of a returned entry of maximal views, null when no id resolves.
C20_GetStateSkipsUnresolvedIds ==
    ret.op = "get_state" =>
        /\ ~ret.raised
        /\ ret.products = [i \in 1..Len(ResolvingIds) |-> products[ResolvingIds[i]]]
        /\ IF ResolvingIds = <<>>
           THEN ret.current_leader_id = Null
           ELSE \E k \in 1..Len(ret.products) :
                    /\ ret.products[k].id = ret.current_leader_id
                    /\ \A j \in 1..Len(ret.products) :
                           ret.products[j].views <= ret.products[k].views

\* get_state returned the one entry that resolves, not the first of
\* product_ids, with an unresolved id left out before it.
C20_Witness ==
    /\ ret.op = "get_state" /\ ~ret.raised
    /\ Len(ret.products) = 1
    /\ metadata.product_ids[1] \notin Persisted(DB)
    /\ ret.current_leader_id = ret.products[1].id

----------------------------------------------------------------------------
\* C21: the countdown reported by get_state is the larger of 0 and
\* VOTES_TO_EVOLVE - votes_this_generation: never negative, never above
\* VOTES_TO_EVOLVE, and 0 once the threshold has been reached or passed.
C21_CountdownIsClamped ==
    (ret.op = "get_state" /\ ~ret.raised) =>
        LET left == VOTES_TO_EVOLVE - metadata.votes_this_generation
        IN /\ ret.votes_this_generation = metadata.votes_this_generation
           /\ ret.votes_until_evolution \in {0, left}
           /\ ret.votes_until_evolution >= left
           /\ ret.votes_until_evolution >= 0
           /\ ret.votes_until_evolution <= VOTES_TO_EVOLVE
           /\ metadata.votes_this_generation >= VOTES_TO_EVOLVE =>
                  ret.votes_until_evolution = 0

\* get_state after a view arrived past the threshold.
C21_Witness ==
    /\ ret.op = "get_state" /\ ~ret.raised
    /\ metadata.votes_this_generation > VOTES_TO_EVOLVE
    /\ ret.votes_until_evolution = 0

----------------------------------------------------------------------------
\* C22: the writes of apply_evolution are, in order: the new entry, then
\* every other live entry with views = 0, then the metadata record; before
\* the last write the stored metadata is the pre-evolution one.
C22_MetadataWrittenLast ==
    EvolveSucceeded =>
        LET n == Len(writes)
            winnerId == ret.evolved_from.id
        IN /\ n >= 2
           /\ writes[1] = [kind |-> "put_product", key |-> ret.evolved_to.id,
                           value |-> ret.evolved_to]
           /\ writes[n].kind = "put_metadata"
           /\ \A k \in 2..(n - 1) :
                  /\ writes[k].kind = "put_product"
                  /\ writes[k].key \in LiveIds(pre) \ {winnerId}
                  /\ writes[k].value = [pre.products[writes[k].key] EXCEPT !.views = 0]
           /\ \A i \in LiveIds(pre) \ {winnerId} :
                  \E k \in 2..(n - 1) : writes[k].key = i
           /\ \A k \in 0..(n - 1) :
                  ApplyAll(pre, SubSeq(writes, 1, k)).metadata = pre.metadata
           /\ metadata # pre.metadata

\* An evolve wrote the new entry, another live entry and then the metadata.
C22_Witness ==
    /\ EvolveSucceeded
    /\ Len(writes) = NumSeeds + 1
    /\ writes[2].kind = "put_product"
    /\ writes[2].key # ret.evolved_to.id
    /\ writes[Len(writes)].kind = "put_metadata"

----------------------------------------------------------------------------
\* Execution stopped inside apply_evolution, after at least the write of the
\* new entry and before the metadata write, and a new Store was opened.
StoppedInApplyEvolution ==
    /\ ret.op = "stopped" /\ ret.during = "evolve"
    /\ pre.metadata # NoMetadata

\* The position of id in product_ids (0 when it is not listed).
PositionOf(m, id) ==
    IF \E k \in 1..Len(m.product_ids) : m.product_ids[k] = id
    THEN CHOOSE k \in 1..Len(m.product_ids) : m.product_ids[k] = id
    ELSE 0

\* C23: after a stop inside apply_evolution before the metadata write, the
\* metadata record is the one before the evolve, every listed id that
\* resolved still resolves, the new entry is persisted and not listed, and
\* the old winner is unchanged and still the leader of an eligible store.
C23_StoppedEvolutionCanBeRetried ==
    StoppedInApplyEvolution =>
        LET new == writes[1].value
            w == new.parent_id
            pos == PositionOf(metadata, w)
        IN /\ metadata = pre.metadata
           /\ LiveIds(pre) = LiveIds(DB)
           /\ NoDanglingIds(pre) => NoDanglingIds(DB)
           /\ new.id \in Persisted(DB) \ Persisted(pre)
           /\ PositionOf(metadata, new.id) = 0
           /\ pos > 0
           /\ products[w] = pre.products[w]
           /\ products[w].views >= 1
           /\ \A k \in 1..Len(metadata.product_ids) :
                  LET p == Lookup(DB, metadata.product_ids[k])
                  IN p # NoProduct =>
                         /\ p.views <= products[w].views
                         /\ k < pos => p.views < products[w].views
           /\ metadata.votes_this_generation >= VOTES_TO_EVOLVE
           /\ CheckEvolutionState(DB).winner = products[w]
           /\ CheckEvolutionState(DB).can_evolve

\* The stop came after every entry write of apply_evolution.
C23_Witness ==
    /\ StoppedInApplyEvolution
    /\ Len(writes) = NumSeeds
    /\ writes[Len(writes)].kind = "put_product"
    /\ metadata = pre.metadata

----------------------------------------------------------------------------
\* The fair steps of SpecFair are the steps of Spec they stand for: a step of
\* ViewOfLiveEntry is a step of MarkProductViewedOp; a view that found a
\* listed entry is a step of ViewOfLiveEntry; likewise for EvolveApplied and
\* the successful non-dry-run steps of EvolveOp.
FairStepsAreSteps ==
    [][/\ ViewOfLiveEntry => MarkProductViewedOp
       /\ (/\ MarkProductViewedOp
           /\ ret'.op = "mark_product_viewed" /\ ~ret'.raised /\ ret'.found
           /\ \E k \in 1..Len(metadata'.product_ids) :
                  metadata'.product_ids[k] = ret'.product_id) => ViewOfLiveEntry
       /\ EvolveApplied => EvolveOp
       /\ (/\ EvolveOp
           /\ ret'.op = "evolve" /\ ~ret'.raised
           /\ ret'.success /\ ~ret'.dry_run_arg) => EvolveApplied]_vars

----------------------------------------------------------------------------
\* The store is eligible: the threshold is reached and the leader has a view.
Eligible ==
    /\ metadata # NoMetadata
    /\ metadata.votes_this_generation >= VOTES_TO_EVOLVE
    /\ Live(DB) # <<>>
    /\ MaxLiveViews(DB) > 0

\* A view of a live entry fits the bounds of the model (on a backend with no
\* metadata the view of a seed id does).
LiveViewFits ==
    \/ metadata = NoMetadata
    \/ /\ metadata.votes_this_generation + 1 <= MaxVotes
       /\ \E i \in LiveIds(DB) : products[i].views + 1 <= MaxVotes

\* The bounds of the model leave the cycle room: a live entry can still be
\* viewed unless the store is already eligible, while an id is left to draw.
RoomToVote == nextId > MaxId \/ Eligible \/ LiveViewFits

\* While an id is left to draw, a further evolution is eventually applied.
EvolvesAgain ==
    \A n \in (NumSeeds + 1)..MaxId : (nextId = n) ~> (nextId > n)

\* Every client operation called in this state returns a result.
ClientOperationsEnabled ==
    /\ ~GetState(initialized, DB).ret.raised
    /\ \A id \in ViewIds : ~MarkProductViewed(initialized, DB, id).ret.raised
    /\ \A dry_run \in BOOLEAN, gen \in GenerationOutcomes :
           ~Evolve(initialized, DB, dry_run, gen, nextId).ret.raised
    /\ ~Reset(initialized, DB).ret.raised

----------------------------------------------------------------------------
\* C25: whenever a step increments generation, the state it starts from has
\* votes_this_generation >= VOTES_TO_EVOLVE, a leader with views >= 1, and at
\* least VOTES_TO_EVOLVE mark_product_viewed calls completed since the last
\* initialize or evolution; the step sets both counts back to 0, so the next
\* evolve to succeed needs as many views again.
C25_ReplacementOnlyWhenEligible ==
    [][(/\ metadata # NoMetadata
        /\ metadata' # NoMetadata
        /\ metadata'.generation > metadata.generation) =>
           /\ metadata.votes_this_generation >= VOTES_TO_EVOLVE
           /\ Live(DB) # <<>>
           /\ MaxLiveViews(DB) >= 1
           /\ completedViews >= VOTES_TO_EVOLVE
           /\ metadata'.votes_this_generation = 0
           /\ completedViews' = 0]_vars

\* An evolve succeeded exactly at the threshold.
C25_Witness ==
    /\ EvolveSucceeded
    /\ metadata.generation = pre.metadata.generation + 1
    /\ pre.metadata.votes_this_generation = VOTES_TO_EVOLVE
    /\ MaxLiveViews(pre) >= 1

----------------------------------------------------------------------------
\* C26: after a successful evolve the replaced entry stays persisted under
\* its old id, and mark_product_viewed called with that id, before any
\* reset, changes no stored record: not that record, not
\* votes_this_generation, not any other.
C26_ReplacedIdIsNeverDereferenced ==
    /\ EvolveSucceeded =>
           /\ ret.evolved_from.id \in Persisted(DB) \ LiveIds(DB)
           /\ products[ret.evolved_from.id] = pre.products[ret.evolved_from.id]
    /\ (/\ ret.op = "mark_product_viewed"
        /\ pre.metadata # NoMetadata
        /\ ret.product_id = pre.metadata.last_winner_id) =>
           /\ writes = <<>>
           /\ DB = pre

----------------------------------------------------------------------------
\* The ids with a record before the last operation that product_ids did not
\* list then: entries replaced by an evolve, or written by an
\* apply_evolution that stopped before its metadata write.
UnlistedBefore ==
    {i \in Persisted(pre) : PositionOf(pre.metadata, i) = 0}

\* A reset() of a store whose metadata existed.
ResetDone ==
    /\ ret.op = "reset" /\ ~ret.raised
    /\ pre.metadata # NoMetadata

----------------------------------------------------------------------------
\* evolve(dry_run=True) returned, called on a store whose metadata existed
\* and that had at least one live entry.
DryRunDone ==
    /\ ret.op = "evolve" /\ ~ret.raised /\ ret.dry_run_arg
    /\ pre.metadata # NoMetadata
    /\ Live(pre) # <<>>

\* p is the leader of db: a live entry of maximal views, the first such in
\* product_ids order.
IsFirstOfMaxViews(db, p) ==
    \E k \in 1..Len(Live(db)) :
        /\ Live(db)[k] = p
        /\ \A j \in 1..Len(Live(db)) :
               /\ Live(db)[j].views <= p.views
               /\ j < k => Live(db)[j].views < p.views

\* C28 as stated: a dry run succeeds in every initialized state with a live
\* entry, also when no vote has been cast, and names the current leader.
C28_DryRunAlwaysSucceeds ==
    DryRunDone =>
        /\ ret.success /\ ret.dry_run
        /\ IsFirstOfMaxViews(pre, ret.would_evolve)

\* C28, amended: a dry run succeeds, below or at the threshold, whenever some
\* live entry has a view, and names the leader, which is the entry a
\* non-dry-run evolve replaces when the store is eligible; when no live entry
\* has a view it returns success = false and names no entry.  It writes
\* nothing.
C28_DryRunSucceedsOnceVoted ==
    DryRunDone =>
        /\ writes = <<>>
        /\ IF MaxLiveViews(pre) >= 1
           THEN /\ ret.success /\ ret.dry_run
                /\ IsFirstOfMaxViews(pre, ret.would_evolve)
                /\ (/\ pre.metadata.votes_this_generation >= VOTES_TO_EVOLVE
                    /\ nextId <= MaxId) =>
                       Evolve(TRUE, pre, FALSE, GenerationSucceeds, nextId).ret.evolved_from
                           = ret.would_evolve
           ELSE /\ ~ret.success /\ ~ret.dry_run
                /\ ret.would_evolve = NoProduct

\* A dry run below the threshold named a leader that is not the first entry.
C28_Witness ==
    /\ DryRunDone
    /\ ret.success /\ ret.dry_run
    /\ pre.metadata.votes_this_generation < VOTES_TO_EVOLVE
    /\ ret.would_evolve.views >= 1
    /\ ret.would_evolve.id # pre.metadata.product_ids[1]

\* The callers that ran initialize(), and the calls that found their entry and
\* have returned.
Initializers == {c \in Callers : calls[c].ran_initialize}

AllReturned == \A c \in Callers : calls[c].pc = "returned"

ViewersOf(id) ==
    {c \in Callers : calls[c].product_id = id /\ calls[c].returned # NoProduct}

\* C29: the read-modify-write of mark_product_viewed is not atomic.  When the
\* concurrent calls have all returned and only one of them ran initialize(),
\* an entry that n of them viewed has between 1 and n views, and
\* votes_this_generation is between 1 and the number of calls that found
\* their entry: every increment is made on the caller's copy of a record
\* that was read before, and written back whole.  The lower end, a lost
\* update, is reached (C29_Witness).
C29_ViewsCountBetweenOneAndCalls ==
    (AllReturned /\ Cardinality(Initializers) = 1) =>
        /\ \A id \in Ids :
               ViewersOf(id) # {} =>
                   /\ products[id] # NoProduct
                   /\ products[id].views \in 1..Cardinality(ViewersOf(id))
        /\ (\E id \in Ids : ViewersOf(id) # {}) =>
               metadata.votes_this_generation
                   \in 1..Cardinality(UNION {ViewersOf(id) : id \in Ids})

\* Two calls on the same id have both returned their ViewResult, initialize()
\* ran once, and the stored views is 1; and likewise for the vote count.
C29_Witness ==
    /\ AllReturned
    /\ Cardinality(Initializers) = 1
    /\ \E id \in Ids :
           /\ Cardinality(ViewersOf(id)) = NumCallers
           /\ products[id].views = 1
           /\ metadata.votes_this_generation = 1

\* C30: on a store with no metadata, concurrent callers still run
\* initialize() once: at most one caller runs it, and the views of an entry
\* that a caller has stored incremented are never back at 0.
C30_InitializeRunsOnce ==
    /\ Cardinality(Initializers) <= 1
    /\ \A c \in Callers :
           calls[c].pc \in {"get_metadata", "update_metadata", "get_all_product_ids",
                            "get_products"}
           \/ (calls[c].pc = "returned" /\ calls[c].returned # NoProduct)
           => products[calls[c].product_id].views >= 1

----------------------------------------------------------------------------
\* C31: in every state reached by client operations run one after another,
\* votes_this_generation equals the sum of the views of the entries listed in
\* product_ids.
C31_VotesEqualSumOfLiveViews ==
    metadata # NoMetadata =>
        metadata.votes_this_generation = SumViews(Live(DB))

----------------------------------------------------------------------------
\* The last step was a client operation, run to its end (returned or raised),
\* that started on a backend left by a stop inside the first initialize():
\* seed entries stored, no metadata.
AfterStoppedInitialize ==
    /\ ret.op \in {"get_state", "mark_product_viewed", "evolve", "reset"}
    /\ pre.metadata = NoMetadata
    /\ Persisted(pre) # {}

SeedIds == [i \in 1..NumSeeds |-> SEED_PRODUCTS[i].id]

InitializationCompleted ==
    /\ ~ret.raised
    /\ metadata # NoMetadata
    /\ metadata.product_ids = SeedIds
    /\ NoDanglingIds(DB)

\* C33 as stated: after a stop inside the first initialize() and a new Store,
\* the next client operation leaves the metadata stored, product_ids the seed
\* ids in seed order, every id resolving and every live entry with views 0.
C33_NextOperationLeavesFreshCatalog ==
    AfterStoppedInitialize =>
        /\ InitializationCompleted
        /\ \A i \in 1..Len(Live(DB)) : Live(DB)[i].views = 0

\* C33, amended: the same, except that when the operation is a
\* mark_product_viewed of a seed id its own vote is stored on top of the
\* fresh catalog: that entry has views 1 and votes_this_generation is 1.
C33_NextOperationCompletesInitialization ==
    AfterStoppedInitialize =>
        /\ InitializationCompleted
        /\ \A i \in 1..Len(Live(DB)) :
               Live(DB)[i].views =
                   IF ViewFound /\ ret.product_id = Live(DB)[i].id THEN 1 ELSE 0
        /\ metadata.votes_this_generation = IF ViewFound THEN 1 ELSE 0
        /\ metadata.generation = 1

\* A get_state completed initialization over a backend where initialize() had
\* stopped after its first write only.
C33_Witness ==
    /\ AfterStoppedInitialize
    /\ ret.op = "get_state"
    /\ Cardinality(Persisted(pre)) < NumSeeds
    /\ InitializationCompleted

----------------------------------------------------------------------------
\* Execution stopped inside reset() after one of its deletes or of the writes
\* of its initialize(), the metadata not rewritten; a new Store is open.
StoppedInReset ==
    /\ ret.op = "stopped" /\ ret.during = "reset"
    /\ pre.metadata # NoMetadata

\* C34: after a stop inside reset() and a new Store, the next get_state
\* returns as many entries as there are seeds and every id in product_ids
\* resolves.
C34_CatalogUsableAfterStoppedReset ==
    StoppedInReset =>
        LET state == GetState(initialized, DB).ret
        IN /\ ~state.raised
           /\ Len(state.products) = NumSeeds
           /\ NoDanglingIds(DB)

----------------------------------------------------------------------------
\* The backend as get_state and check_evolution_state read it: after their
\* _ensure_initialized().
Ensured == ApplyAll(DB, EnsureInitialized(initialized, DB))

\* C35: in every reachable state with at least one live entry,
\* get_state.current_leader_id is non-null, the winner of
\* check_evolution_state, when it has one, is that leader, and the two
\* operations report the same votes_until_evolution.
C35_GetStateAgreesWithCheckEvolutionState ==
    Live(Ensured) # <<>> =>
        LET state == GetState(initialized, DB).ret
            evolution == CheckEvolutionState(Ensured)
        IN /\ ~state.raised
           /\ state.current_leader_id # Null
           /\ evolution.winner # NoProduct =>
                  evolution.winner.id = state.current_leader_id
           /\ state.votes_until_evolution = evolution.votes_until_evolution

----------------------------------------------------------------------------
\* C32: when a non-dry-run evolve interleaves with another evolve or with a
\* reset, every evolve that returns success = true has replaced an entry:
\* its metadata write puts its evolved_to.id in product_ids at the place of
\* its evolved_from.id, every other position unchanged, and increases the
\* stored generation by exactly 1.
C32_SuccessfulEvolveReplacesItsWinner ==
    [][\A c \in Callers :
          (calls[c].pc = "apply_update_metadata"
               /\ calls'[c].pc = "evolve_get_metadata") =>
              /\ \E k \in 1..Len(metadata.product_ids) :
                     /\ metadata.product_ids[k] = calls[c].winner.id
                     /\ metadata'.product_ids =
                            [metadata.product_ids EXCEPT ![k] = calls[c].evolved.id]
              /\ metadata'.generation = metadata.generation + 1]_vars

====
